---- MODULE Spec2Model ----
(***************************************************************************)
(* Streamliner-AI: the chunk-processing worker (ProcessingWorker) that     *)
(* watches a session directory, spawns one analysis task per new chunk     *)
(* and reclaims disk space, together with the environment it runs in (the  *)
(* capture process writing chunk files, download_stream calling stop(),    *)
(* the event loop cancelling its tasks).                                   *)
(***************************************************************************)
EXTENDS Integers, Sequences, FiniteSets, TLC

\* ------------------------------------------------------------------ bounds
\* chunk files the capture process can write during one session
MaxChunks == 6
\* os.remove calls that may raise OSError during one session
MaxDelFail == 2
\* exceptions that may be raised inside poll iterations during one session
MaxExc == 1
\* highlights one detector run can return for a chunk
MaxFound == 1
\* windows of an analysed audio file (the 60-window example apart)
MaxWindows == 5
\* largest RMS value of a window, in units of the smallest one
MaxEnergy == 2
\* length of a transcript (the written-out examples apart)
MaxText == 2

\* download sessions the monitor can launch
MaxSessions == 3
\* shutil.rmtree calls that may raise during one run of the monitor
MaxRmFail == 1

\* ------------------------------------------------------- program constants
\* stop_after_attempt(3) of get_streamers_status
StatusStopAfterAttempt == 3
Capacity == 5
PollInterval == 5
BackoffInterval == 10
RetryDelay == 1
GraceDelay == 2
\* find_highlights(audio_path_str, video_duration_sec, streamer_name)
FindHighlightsArity == 3

Chunks == 1 .. MaxChunks

\* chunk n is the file chunk_0000n.ts; its extracted audio is chunk_0000n.wav
Ts(c) == <<c, "ts">>
Wav(c) == <<c, "wav">>

\* concurrent find_highlights runs on one detector
Runs == {1, 2}

None == <<>>

\* config.streamers: names are sequences of characters; one of them is part
\* of another
MonitorStreamers == {<<"a">>, <<"a", "b">>, <<"c">>}

VARIABLES
    files,            \* the files of stream_session_dir
    nextChunk,        \* number of the next segment the capture process writes
    capture,          \* "running" | "ended": the streamlink/ffmpeg producer
    processed_chunks, \* self.processed_chunks
    cleanup_buffer,   \* self.cleanup_buffer, a deque(maxlen=Capacity)
    shutdown_event,   \* self.shutdown_event.is_set()
    cancelled,        \* the event loop has cancelled its tasks
    pc,               \* position of ProcessingWorker.start
    new_chunks,       \* the rest of new_chunks in the running for loop
    todo,             \* the rest of list(self.cleanup_buffer) in _final_cleanup
    sweep,            \* the rest of glob("*.ts") in _final_cleanup
    chunk_to_delete,  \* the path _safe_delete is retrying
    sleepLeft,        \* seconds the running asyncio.sleep still takes
    sinceStop,        \* seconds slept by the loop since stop() was called
    task,             \* state of process_chunk(c) for every chunk
    found,            \* highlights the detector returned for c, -1: never ran
    clipCalls,        \* calls of process_and_create_clip per chunk
    launched,         \* chunks in the order of asyncio.create_task
    excs,             \* exceptions raised in poll iterations so far
    delFails,         \* OSErrors raised by os.remove so far
    delAttempts,      \* _safe_delete calls made by _cleanup_oldest_chunk
    sweepFailed,      \* files the final sweep failed to remove in both attempts
    leftForSweep      \* files the loop failed to remove in both attempts and
                      \* _final_cleanup has not handed to _safe_delete yet

\* find_highlights runs of one HighlightDetector; the locals of a run keep
\* their names
VARIABLES
    detector,             \* self.config of the HighlightDetector, None before
    rpc,                  \* position of each find_highlights run (this and
                          \* the other per-run variables are None before
                          \* the detector exists)
    video_duration_sec,   \* the declared duration a run was called with
    streamer_name,        \* the streamer a run was called with
    span,                 \* rms_max - rms_min of the run's audio
    candidate_peaks,      \* the peaks the loop has not finished: <<peak_idx,
                          \* energy above rms_min>>, the current one first
    segment_audio_path,   \* the run's segment_audio_path
    candidate_highlights, \* the run's candidate_highlights
    result,               \* the list the run returned
    handled,              \* <<peak_idx, how its handling ended>> per run
    segments,             \* temp_segment files in the audio directory
    inflight,             \* external calls in flight: <<run, peak_idx, kind>>
    scored,               \* the last candidate that reached the scoring,
                          \* with the locals of its scoring
    rms_scores            \* rms_scores of run 1 where CurveSpec keeps it,
                          \* else None

\* a call of process_and_create_clip
VARIABLES
    clip    \* None before the call, then a record: the parameters and the
            \* configuration of the call (dry_run, storage_type,
            \* upload_strategy), its position pc, its temp_files, the files
            \* it has on disk, the requests it has sent to external services,
            \* the attempts of upload_clip, how each of them ended, and what
            \* upload_clip returned

\* the Monitor
VARIABLES
    mpc,                    \* "cycle": at the await before the first status
                            \* query of a cycle; "retry_wait": between two
                            \* attempts of the query; "ended": the loop is over
    attempt_number,         \* failed attempts of the query of this cycle
    active_download_tasks,  \* the keys of the dict, in insertion order
    dtask,                  \* per streamer, the task the dict holds for it:
                            \* "none", "running", "done"
    running,                \* per streamer, its download tasks not yet done
    session_dir,            \* per streamer, the directory of the task dtask
    session_dirs,           \* the directories under chunk_storage_path
    stamp,                  \* the time stamp the next launch will see
    rm_fails,               \* shutil.rmtree calls that raised so far
    cycle_result            \* how the last cycle ended: "none", "ok", "raised"

\* a call of Downloader.download_stream
VARIABLES
    download_stream    \* the position of the coroutine: "entry" (also
                       \* where the caller of the worker is left open),
                       \* "gather", "await_worker", or how it ended:
                       \* "returned", "raised", "cancelled"

workerVars == <<files, nextChunk, capture, processed_chunks, cleanup_buffer,
                shutdown_event, cancelled, pc, new_chunks, todo, sweep,
                chunk_to_delete, sleepLeft, sinceStop, task, found, clipCalls,
                launched, excs, delFails, delAttempts, sweepFailed,
                leftForSweep>>

detVars == <<detector, rpc, video_duration_sec, streamer_name, span,
             candidate_peaks, segment_audio_path, candidate_highlights,
             result, handled, segments, inflight, scored, rms_scores>>

clipVars == <<clip>>

dlVars == <<download_stream>>

monVars == <<mpc, attempt_number, active_download_tasks, dtask, running,
             session_dir, session_dirs, stamp, rm_fails, cycle_result>>

vars == <<workerVars, detVars, clipVars, dlVars, monVars>>

watcherState == <<processed_chunks, cleanup_buffer>>

\* ------------------------------------------------------------ pure helpers
RECURSIVE SortedByNameReversed(_)
SortedByNameReversed(S) ==
    IF S = {} THEN <<>>
    ELSE LET m == CHOOSE x \in S : \A y \in S : x >= y
         IN  <<m>> \o SortedByNameReversed(S \ {m})

RECURSIVE SortedByName(_)
\* sorted(..., key=lambda p: p.name): chunk_%05d.ts sorts as its number does
SortedByName(S) ==
    IF S = {} THEN <<>>
    ELSE LET m == CHOOSE x \in S : \A y \in S : x <= y
         IN  <<m>> \o SortedByName(S \ {m})

GlobMp4(fs) == {f[1] : f \in {g \in fs : g[2] = "mp4"}}

\* stream_session_dir.glob("*.ts")
GlobTs(fs) == {f[1] : f \in {g \in fs : g[2] = "ts"}}

NewChunksUnfiltered(all_chunks, processed) == all_chunks

\* [chunk for chunk in all_chunks if chunk.name not in self.processed_chunks]
NewChunks(all_chunks, processed) ==
    SelectSeq(all_chunks, LAMBDA c : c \notin processed)

\* deque(maxlen=Capacity).append: a full deque drops its oldest element
DequeAppend(buf, c) ==
    LET s == Append(buf, c)
    IN  IF Len(s) > Capacity THEN Tail(s) ELSE s

CleanupNewest(buf) ==
    IF Len(buf) = Capacity THEN buf[Len(buf)] ELSE 0

CleanupOldestWhenOver(buf) ==
    IF Len(buf) > Capacity THEN buf[1] ELSE 0

\* _cleanup_oldest_chunk: the path handed to _safe_delete, 0 if there is none
CleanupOldest(buf) ==
    IF Len(buf) = Capacity THEN buf[1] ELSE 0

LoopPcs == {"loop", "iter", "sleep", "backoff", "retry_loop"}
SleepPcs == {"sleep", "backoff", "retry_loop", "grace", "retry_buf", "retry_sweep"}
RetryPcs == {"retry_loop", "retry_buf", "retry_sweep"}
InFlight == {"pending", "extracting"}

\* seconds the loop has been kept asleep after stop(), counted while it runs
Slept(d) == IF shutdown_event /\ pc \in LoopPcs THEN sinceStop + d ELSE sinceStop

OnLoopExceptionBreak == "grace"

\* except Exception: log, await asyncio.sleep(10), next iteration
OnLoopException == "backoff"

Init ==
    /\ files = {}
    /\ nextChunk = 1
    /\ capture = "running"
    /\ processed_chunks = {}
    /\ cleanup_buffer = <<>>
    /\ shutdown_event = FALSE
    /\ cancelled = FALSE
    /\ pc = "loop"
    /\ new_chunks = <<>>
    /\ todo = <<>>
    /\ sweep = <<>>
    /\ chunk_to_delete = 0
    /\ sleepLeft = 0
    /\ sinceStop = 0
    /\ task = [c \in Chunks |-> "none"]
    /\ found = [c \in Chunks |-> -1]
    /\ clipCalls = [c \in Chunks |-> 0]
    /\ launched = <<>>
    /\ excs = 0
    /\ delFails = 0
    /\ delAttempts = 0
    /\ sweepFailed = {}
    /\ leftForSweep = {}
    /\ download_stream = "entry"
    /\ mpc = "cycle"
    /\ attempt_number = 0
    /\ active_download_tasks = <<>>
    /\ dtask = [s \in MonitorStreamers |-> "none"]
    /\ running = [s \in MonitorStreamers |-> 0]
    /\ session_dir = [s \in MonitorStreamers |-> None]
    /\ session_dirs = {}
    /\ stamp = 1
    /\ rm_fails = 0
    /\ cycle_result = "none"
    /\ detector = None
    /\ rpc = None
    /\ video_duration_sec = None
    /\ streamer_name = None
    /\ span = None
    /\ candidate_peaks = None
    /\ segment_audio_path = None
    /\ candidate_highlights = None
    /\ result = None
    /\ handled = None
    /\ segments = {}
    /\ inflight = {}
    /\ scored = None
    /\ rms_scores = None
    /\ clip = None

\* -------------------------------------------------- HighlightDetector, pure
\* numbers: an energy is an integer; a time t is kept as 2t, since
\* clip_duration_seconds / 2 may fall on a half second; a weight or threshold
\* w is kept as 10w; a score s of a run is kept as 10 * (rms_max - rms_min) * s

MaxOf(S) == CHOOSE x \in S : \A y \in S : x >= y
MinOf(S) == CHOOSE x \in S : \A y \in S : x <= y

\* x[k] of a numpy array held as a sequence
At(x, k) == x[k + 1]

RECURSIVE LookAhead(_, _, _)
\* scipy _local_maxima_1d: the next sample that is unequal to x[i]
LookAhead(x, i, a) ==
    IF a < Len(x) - 1 /\ At(x, a) = At(x, i) THEN LookAhead(x, i, a + 1) ELSE a

RECURSIVE LocalMaxima(_, _)
\* scipy _local_maxima_1d from sample i on: a sample (or plateau) that rises
\* above both its neighbours; a plateau counts at its midpoint, the first and
\* the last sample never count
LocalMaxima(x, i) ==
    IF i >= Len(x) - 1 THEN <<>>
    ELSE IF At(x, i - 1) < At(x, i)
         THEN LET a == LookAhead(x, i, i + 1)
              IN  IF At(x, a) < At(x, i)
                  THEN <<(i + a - 1) \div 2>> \o LocalMaxima(x, a + 1)
                  ELSE LocalMaxima(x, i + 1)
         ELSE LocalMaxima(x, i + 1)

RECURSIVE PriorityOrders(_, _, _)
\* scipy _select_by_peak_distance walks the peaks from the highest to the
\* lowest, in the order np.argsort(priority) gives. argsort's default sort is
\* not stable: a build that sorts so short an array by insertion leaves equal
\* heights in index order, and the walk, which starts at the end, then takes
\* the later peak first; a build with a vectorised sort may order equal
\* heights either way. The orders a build can produce
PriorityOrders(P, peaks, x) ==
    IF P = {} THEN {<<>>}
    ELSE UNION {{<<j>> \o o : o \in PriorityOrders(P \ {j}, peaks, x)} :
                  j \in {i \in P : \A k \in P :
                                      At(x, peaks[i]) >= At(x, peaks[k])}}

SuppressNothing(order, keep, peaks, distance) == keep

RECURSIVE Suppress(_, _, _, _)
\* scipy _select_by_peak_distance: a kept peak drops every peak closer to it
\* than the distance
Suppress(order, keep, peaks, distance) ==
    IF order = <<>> THEN keep
    ELSE LET j == Head(order)
         IN  IF j \notin keep
             THEN Suppress(Tail(order), keep, peaks, distance)
             ELSE Suppress(Tail(order),
                           {k \in keep : \/ k = j
                                         \/ peaks[k] - peaks[j] >= distance
                                         \/ peaks[j] - peaks[k] >= distance},
                           peaks, distance)

\* the local maxima of x whose normalized value reaches height10 / 10:
\* normalized_rms is (x - rms_min) / width, so this is decided on integers
HighPeaks(x, height10) ==
    LET rms_min == MinOf({x[i] : i \in 1 .. Len(x)})
        rms_max == MaxOf({x[i] : i \in 1 .. Len(x)})
        width == rms_max - rms_min
    IN  SelectSeq(LocalMaxima(x, 1),
                  LAMBDA p : (At(x, p) - rms_min) * 10 >= height10 * width)

\* find_peaks(normalized_rms, height, distance) on the curve x: the index
\* arrays it can return, one for each order of equal heights
FindPeaks(x, height10, distance) ==
    LET high == HighPeaks(x, height10)
    IN  {SelectSeq(high,
                   LAMBDA p : \E k \in Suppress(o, 1 .. Len(high), high,
                                                distance) : high[k] = p) :
           o \in PriorityOrders(1 .. Len(high), high, x)}

\* candidate_peaks.any(): some peak index is not 0
AnyPeak(peaks) == \E i \in 1 .. Len(peaks) : peaks[i] # 0

StartTimeWholeClip(peak_idx, clip_len) ==
    MaxOf({0, 2 * peak_idx - 2 * clip_len})

EndTimeUnclamped(peak_idx, clip_len, duration) == 2 * peak_idx + clip_len

\* start_time and end_time of the candidate at peak_idx, doubled
StartTime(peak_idx, clip_len) == MaxOf({0, 2 * peak_idx - clip_len})
EndTime(peak_idx, clip_len, duration) ==
    MinOf({2 * duration, 2 * peak_idx + clip_len})

\* f"{t:.0f}" of a time held doubled: a half rounds to the even neighbour
Format0f(t2) ==
    IF t2 % 2 = 0 THEN t2 \div 2
    ELSE LET f == t2 \div 2 IN IF f % 2 = 0 THEN f ELSE f + 1

\* main_audio_path.parent / f"temp_segment_{start:.0f}_{end:.0f}.wav": every
\* audio file of a session lies in the session directory
SegmentPath(start2, end2) == <<"temp_segment", Format0f(start2), Format0f(end2)>>

\* str.lower on the letters the transcripts use
LowerChar(ch) ==
    CASE ch = "C" -> "c" [] ch = "L" -> "l" [] ch = "U" -> "u"
      [] ch = "T" -> "t" [] ch = "H" -> "h" [] ch = "G" -> "g"
      [] OTHER -> ch

Lower(t) == [i \in 1 .. Len(t) |-> LowerChar(t[i])]

\* positions at which k starts in t
Occurrences(k, t) ==
    {i \in 1 .. (Len(t) - Len(k) + 1) : SubSeq(t, i, i + Len(k) - 1) = k}

\* keyword.lower() in text_segment.lower()
Contains(keyword, text) ==
    Len(keyword) = 0 \/ Occurrences(Lower(keyword), Lower(text)) # {}

\* self.streamer_keywords_map.get(streamer_name, {})
StreamerSpecific(cfg, streamer) ==
    IF streamer \in DOMAIN cfg.streamer_keywords
    THEN cfg.streamer_keywords[streamer]
    ELSE <<>>

CombinedKeywordsGeneralFirst(general, specific) ==
    [k \in DOMAIN general \cup DOMAIN specific |->
        IF k \in DOMAIN general THEN general[k] ELSE specific[k]]

\* {**general_keywords, **current_streamer_specific_keywords}
CombinedKeywords(general, specific) ==
    [k \in DOMAIN general \cup DOMAIN specific |->
        IF k \in DOMAIN specific THEN specific[k] ELSE general[k]]

RECURSIVE ScoreItemsPerOccurrence(_, _, _)
ScoreItemsPerOccurrence(keys, table, text) ==
    IF keys = {} THEN 0
    ELSE LET k == CHOOSE k \in keys : TRUE
         IN  table[k] * Cardinality(Occurrences(Lower(k), Lower(text)))
             + ScoreItemsPerOccurrence(keys \ {k}, table, text)

RECURSIVE ScoreItems(_, _, _)
\* for keyword, weight in combined_keywords.items(): score += weight when
\* the keyword is found
ScoreItems(keys, table, text) ==
    IF keys = {} THEN 0
    ELSE LET k == CHOOSE k \in keys : TRUE
         IN  (IF Contains(k, text) THEN table[k] ELSE 0)
             + ScoreItems(keys \ {k}, table, text)

\* _calculate_keyword_score(text_segment, streamer_name)
CalculateKeywordScore(cfg, text, streamer) ==
    LET combined == CombinedKeywords(cfg.keywords,
                                     StreamerSpecific(cfg, streamer))
    IN  ScoreItems(DOMAIN combined, combined, text)

\* final_hype_score of a peak of energy e above rms_min, times 10 * width,
\* where width is rms_max - rms_min
FinalHypeScore(cfg, e, width, keyword_score) ==
    e * cfg.rms_weight + keyword_score * cfg.keyword_weight * width

RECURSIVE InsertByScoreLatestFirst(_, _)
InsertByScoreLatestFirst(h, sorted) ==
    IF sorted = <<>> THEN <<h>>
    ELSE IF Head(sorted).score > h.score
         THEN <<Head(sorted)>> \o InsertByScoreLatestFirst(h, Tail(sorted))
         ELSE <<h>> \o sorted

RECURSIVE InsertByScore(_, _)
\* the place of h, which was collected after those in sorted: behind every
\* highlight with the same or a higher score
InsertByScore(h, sorted) ==
    IF sorted = <<>> THEN <<h>>
    ELSE IF Head(sorted).score >= h.score
         THEN <<Head(sorted)>> \o InsertByScore(h, Tail(sorted))
         ELSE <<h>> \o sorted

RECURSIVE SortedByScore(_)
\* sorted(candidate_highlights, key=score, reverse=True): stable, so equal
\* scores stay in the order they were collected
SortedByScore(hs) ==
    IF hs = <<>> THEN <<>>
    ELSE InsertByScore(hs[Len(hs)], SortedByScore(SubSeq(hs, 1, Len(hs) - 1)))

\* the value find_highlights returns
Returned(hs, max_clips) ==
    LET sorted == SortedByScore(hs)
    IN  SubSeq(sorted, 1, MinOf({Len(sorted), max_clips}))

\* ------------------------------------------------------------- environment
\* ffmpeg -f segment writes the next chunk_%05d.ts
ChunkAppears ==
    /\ capture = "running"
    /\ nextChunk <= MaxChunks
    /\ files' = files \cup {Ts(nextChunk)}
    /\ nextChunk' = nextChunk + 1
    /\ UNCHANGED <<leftForSweep, detVars, clipVars, dlVars, monVars>>
    /\ UNCHANGED <<capture, processed_chunks, cleanup_buffer, shutdown_event,
                   cancelled, pc, new_chunks, todo, sweep, chunk_to_delete,
                   sleepLeft, sinceStop, task, found, clipCalls, launched,
                   excs, delFails, delAttempts, sweepFailed>>

\* wait_for_download_end returns: streamlink and ffmpeg have exited
CaptureEnds ==
    /\ capture = "running"
    /\ capture' = "ended"
    /\ UNCHANGED <<leftForSweep, detVars, clipVars, dlVars, monVars>>
    /\ UNCHANGED <<files, nextChunk, processed_chunks, cleanup_buffer,
                   shutdown_event, cancelled, pc, new_chunks, todo, sweep,
                   chunk_to_delete, sleepLeft, sinceStop, task, found,
                   clipCalls, launched, excs, delFails, delAttempts,
                   sweepFailed>>

\* download_stream calls worker.stop() once the gather has returned. It runs
\* while the worker is suspended, so the call falls at some point of the
\* sleep the worker is in (r seconds of it are left)
WorkerStop ==
    /\ capture = "ended"
    /\ ~shutdown_event
    /\ ~cancelled
    /\ shutdown_event' = TRUE
    /\ sinceStop' = 0
    /\ pc \in LoopPcs \cap SleepPcs
    /\ \E r \in 0 .. sleepLeft : sleepLeft' = r
    /\ UNCHANGED <<leftForSweep, detVars, clipVars, monVars>>
    /\ UNCHANGED <<files, nextChunk, capture, processed_chunks, cleanup_buffer,
                   cancelled, pc, new_chunks, todo, sweep, chunk_to_delete,
                   task, found, clipCalls, launched, excs, delFails,
                   delAttempts, sweepFailed>>

Stop == WorkerStop /\ UNCHANGED dlVars

\* ---------------------------------------------------------- download_stream
Ended == {"returned", "raised", "cancelled"}

\* download_stream up to its gather: the worker task is created, then the two
\* subprocesses, and create_subprocess_exec can raise
DownloadStream ==
    /\ download_stream = "entry"
    /\ download_stream' \in {"gather", "raised"}
    /\ UNCHANGED <<workerVars, detVars, clipVars, monVars>>

\* the gather returns: worker.stop(), then await worker_task
GatherReturns ==
    /\ download_stream = "gather"
    /\ WorkerStop
    /\ download_stream' = "await_worker"

\* one of the awaitables of the gather raises (a log reader, pipe_data or
\* wait_for_download_end): the exception leaves download_stream
GatherRaises ==
    /\ download_stream = "gather"
    /\ download_stream' = "raised"
    /\ UNCHANGED <<workerVars, detVars, clipVars, monVars>>

\* Monitor.shutdown cancels the download task while it is in the gather:
\* CancelledError leaves download_stream
GatherCancelled ==
    /\ download_stream = "gather"
    /\ download_stream' = "cancelled"
    /\ UNCHANGED <<workerVars, detVars, clipVars, monVars>>

\* Monitor.shutdown cancels the download task while it awaits worker_task: the
\* cancellation goes to the worker task, whose pending await raises
\* CancelledError; that breaks the polling loop or aborts _final_cleanup
AwaitWorkerCancelled ==
    /\ download_stream = "await_worker"
    /\ ~cancelled
    /\ pc \in SleepPcs
    /\ cancelled' = TRUE
    /\ pc' = IF pc \in LoopPcs THEN "grace" ELSE "aborted"
    /\ sleepLeft' = IF pc \in LoopPcs THEN GraceDelay ELSE 0
    /\ new_chunks' = <<>>
    /\ chunk_to_delete' = 0
    /\ sinceStop' = 0
    /\ UNCHANGED <<leftForSweep, detVars, clipVars, dlVars, monVars>>
    /\ UNCHANGED <<files, nextChunk, capture, processed_chunks, cleanup_buffer,
                   shutdown_event, todo, sweep, task, found, clipCalls,
                   launched, excs, delFails, delAttempts, sweepFailed>>

\* await worker_task ends: start() has returned, or the worker task was
\* cancelled inside _final_cleanup and the await raises CancelledError
AwaitWorkerReturns ==
    /\ download_stream = "await_worker"
    /\ pc \in {"done", "aborted"}
    /\ download_stream' = IF pc = "done" THEN "returned" ELSE "cancelled"
    /\ UNCHANGED <<workerVars, detVars, clipVars, monVars>>

\* --------------------------------------------------------- ProcessingWorker
LoopNext(rest) == IF rest = <<>> THEN "sleep" ELSE "iter"
LoopNextSleep(rest) == IF rest = <<>> THEN PollInterval ELSE 0

\* one attempt of _safe_delete on a path: the path is not there, os.remove
\* removes it, or os.remove raises OSError
DeleteOutcomes(path) ==
    IF Ts(path) \notin files THEN {"absent"}
    ELSE IF delFails < MaxDelFail THEN {"removed", "oserror"}
    ELSE {"removed"}

FilesAfter(path, o) == IF o = "removed" THEN files \ {Ts(path)} ELSE files
FailsAfter(o) == IF o = "oserror" THEN delFails + 1 ELSE delFails

\* _safe_delete, first attempt: an OSError sends the caller into the 1 s
\* sleep before the retry, anything else lets it go on at contPc
SafeDelete(path, contPc, contSleep, retryPc) ==
    \E o \in DeleteOutcomes(path) :
       /\ files' = FilesAfter(path, o)
       /\ delFails' = FailsAfter(o)
       /\ pc' = IF o = "oserror" THEN retryPc ELSE contPc
       /\ sleepLeft' = IF o = "oserror" THEN RetryDelay ELSE contSleep
       /\ chunk_to_delete' = IF o = "oserror" THEN path ELSE 0

\* the first step of every task created since the worker last suspended: the
\* event loop runs it as soon as the worker awaits. _extract_audio spawns
\* ffmpeg on the chunk, which writes the .wav; without the chunk file ffmpeg
\* fails at once (RuntimeError, caught and logged in process_chunk)
BeginTasks(t, fs) ==
    [c \in Chunks |->
        IF t[c] # "pending" THEN t[c]
        ELSE IF Ts(c) \in fs THEN "extracting" ELSE "failed"]

WavsOfBegun(t, fs) == {Wav(c) : c \in {d \in Chunks : t[d] = "pending" /\ Ts(d) \in fs}}

\* while not self.shutdown_event.is_set(): list, sort and filter the chunks;
\* an exception in the iteration is logged and followed by the back-off
Poll ==
    /\ pc = "loop"
    /\ ~shutdown_event
    /\ \E exc \in (IF excs < MaxExc THEN BOOLEAN ELSE {FALSE}) :
         IF exc
         THEN /\ excs' = excs + 1
              /\ pc' = OnLoopException
              /\ sleepLeft' = IF OnLoopException = "backoff"
                              THEN BackoffInterval ELSE GraceDelay
              /\ new_chunks' = new_chunks
         ELSE LET all_chunks == SortedByName(GlobTs(files))
                  fresh == NewChunks(all_chunks, processed_chunks)
              IN  /\ excs' = excs
                  /\ new_chunks' = fresh
                  /\ pc' = LoopNext(fresh)
                  /\ sleepLeft' = LoopNextSleep(fresh)
    /\ UNCHANGED <<leftForSweep, detVars, clipVars, dlVars, monVars>>
    /\ UNCHANGED <<files, nextChunk, capture, processed_chunks, cleanup_buffer,
                   shutdown_event, cancelled, todo, sweep, chunk_to_delete,
                   sinceStop, task, found, clipCalls, launched, delFails,
                   delAttempts, sweepFailed>>

\* the loop condition fails: leave the loop and enter _final_cleanup, which
\* starts with await asyncio.sleep(2)
ExitLoop ==
    /\ pc = "loop"
    /\ shutdown_event
    /\ pc' = "grace"
    /\ sleepLeft' = GraceDelay
    /\ sinceStop' = 0
    /\ UNCHANGED <<leftForSweep, detVars, clipVars, dlVars, monVars>>
    /\ UNCHANGED <<files, nextChunk, capture, processed_chunks, cleanup_buffer,
                   shutdown_event, cancelled, new_chunks, todo, sweep,
                   chunk_to_delete, task, found, clipCalls, launched, excs,
                   delFails, delAttempts, sweepFailed>>

\* one pass of "for chunk_path in new_chunks": buffer the chunk, spawn its
\* task, mark it processed, then _cleanup_oldest_chunk. When the pass ends in
\* an await (the retry sleep or the poll sleep) the spawned tasks start
ProcessChunk ==
    /\ pc = "iter"
    /\ new_chunks # <<>>
    /\ LET c == Head(new_chunks)
           rest == Tail(new_chunks)
           buf == IF Ts(c) \in files
                  THEN DequeAppend(cleanup_buffer, c)
                  ELSE cleanup_buffer
           oldest == CleanupOldest(buf)
           spawned == [task EXCEPT ![c] = "pending"]
       IN  /\ cleanup_buffer' = buf
           /\ launched' = Append(launched, c)
           /\ processed_chunks' = processed_chunks \cup {c}
           /\ new_chunks' = rest
           /\ delAttempts' = IF oldest = 0 THEN delAttempts
                             ELSE delAttempts + 1
           /\ \E o \in DeleteOutcomes(oldest) :
                LET fs == FilesAfter(oldest, o)
                    awaits == o = "oserror" \/ rest = <<>>
                IN  /\ delFails' = FailsAfter(o)
                    /\ pc' = IF o = "oserror" THEN "retry_loop"
                             ELSE LoopNext(rest)
                    /\ sleepLeft' = IF o = "oserror" THEN RetryDelay
                                    ELSE LoopNextSleep(rest)
                    /\ chunk_to_delete' = IF o = "oserror" THEN oldest ELSE 0
                    /\ task' = IF awaits THEN BeginTasks(spawned, fs)
                               ELSE spawned
                    /\ files' = IF awaits THEN fs \cup WavsOfBegun(spawned, fs)
                                ELSE fs
    /\ UNCHANGED <<leftForSweep, detVars, clipVars, dlVars, monVars>>
    /\ UNCHANGED <<nextChunk, capture, shutdown_event, cancelled, todo, sweep,
                   sinceStop, found, clipCalls, excs, sweepFailed>>

RetryDeleteRaising ==
    /\ pc \in RetryPcs
    /\ sinceStop' = Slept(sleepLeft)
    /\ chunk_to_delete' = 0
    /\ \E o \in DeleteOutcomes(chunk_to_delete) :
         /\ files' = FilesAfter(chunk_to_delete, o)
         /\ delFails' = FailsAfter(o)
         /\ pc' = CASE o = "oserror" /\ pc = "retry_loop" -> "backoff"
                    [] o = "oserror" /\ pc # "retry_loop" -> "aborted"
                    [] o # "oserror" /\ pc = "retry_loop" -> LoopNext(new_chunks)
                    [] o # "oserror" /\ pc = "retry_buf" -> "fbuf"
                    [] o # "oserror" /\ pc = "retry_sweep" -> "fsweep"
         /\ sleepLeft' = CASE o = "oserror" /\ pc = "retry_loop" -> BackoffInterval
                          [] o # "oserror" /\ pc = "retry_loop" ->
                                LoopNextSleep(new_chunks)
                          [] OTHER -> 0
         /\ sweepFailed' = IF o = "oserror" /\ pc = "retry_sweep"
                           THEN sweepFailed \cup {chunk_to_delete}
                           ELSE sweepFailed
         /\ leftForSweep' = IF o = "oserror" /\ pc = "retry_loop"
                            THEN leftForSweep \cup {chunk_to_delete}
                            ELSE leftForSweep
    /\ UNCHANGED <<detVars, clipVars, dlVars, monVars>>
    /\ UNCHANGED <<nextChunk, capture, processed_chunks, cleanup_buffer,
                   shutdown_event, cancelled, new_chunks, todo, sweep, task,
                   found, clipCalls, launched, excs, delAttempts>>

\* _safe_delete after its await asyncio.sleep(1): the second attempt; a second
\* OSError is logged and the caller goes on
RetryDelete ==
    /\ pc \in RetryPcs
    /\ sinceStop' = Slept(sleepLeft)
    /\ pc' = CASE pc = "retry_loop" -> LoopNext(new_chunks)
               [] pc = "retry_buf" -> "fbuf"
               [] pc = "retry_sweep" -> "fsweep"
    /\ sleepLeft' = IF pc = "retry_loop" THEN LoopNextSleep(new_chunks) ELSE 0
    /\ chunk_to_delete' = 0
    /\ \E o \in DeleteOutcomes(chunk_to_delete) :
         /\ files' = FilesAfter(chunk_to_delete, o)
         /\ delFails' = FailsAfter(o)
         /\ sweepFailed' = IF o = "oserror" /\ pc = "retry_sweep"
                           THEN sweepFailed \cup {chunk_to_delete}
                           ELSE sweepFailed
         /\ leftForSweep' = IF o = "oserror" /\ pc = "retry_loop"
                            THEN leftForSweep \cup {chunk_to_delete}
                            ELSE leftForSweep
    /\ UNCHANGED <<detVars, clipVars, dlVars, monVars>>
    /\ UNCHANGED <<nextChunk, capture, processed_chunks, cleanup_buffer,
                   shutdown_event, cancelled, new_chunks, todo, sweep, task,
                   found, clipCalls, launched, excs, delAttempts>>

WakeAfterTasks ==
    /\ pc \in {"sleep", "backoff"}
    /\ \A c \in Chunks : task[c] \notin InFlight
    /\ sinceStop' = Slept(sleepLeft)
    /\ pc' = "loop"
    /\ sleepLeft' = 0
    /\ UNCHANGED <<leftForSweep, detVars, clipVars, dlVars, monVars>>
    /\ UNCHANGED <<files, nextChunk, capture, processed_chunks, cleanup_buffer,
                   shutdown_event, cancelled, new_chunks, todo, sweep,
                   chunk_to_delete, task, found, clipCalls, launched, excs,
                   delFails, delAttempts, sweepFailed>>

\* await asyncio.sleep(5) or asyncio.sleep(10) returns: back to the loop head
Wake ==
    /\ pc \in {"sleep", "backoff"}
    /\ sinceStop' = Slept(sleepLeft)
    /\ pc' = "loop"
    /\ sleepLeft' = 0
    /\ UNCHANGED <<leftForSweep, detVars, clipVars, dlVars, monVars>>
    /\ UNCHANGED <<files, nextChunk, capture, processed_chunks, cleanup_buffer,
                   shutdown_event, cancelled, new_chunks, todo, sweep,
                   chunk_to_delete, task, found, clipCalls, launched, excs,
                   delFails, delAttempts, sweepFailed>>

\* the event loop shuts down (asyncio.run cancels every task): the worker's
\* pending await raises CancelledError, which breaks the polling loop or
\* aborts _final_cleanup; every chunk task in flight is cancelled as well
Cancel ==
    /\ ~cancelled
    /\ pc \in SleepPcs
    /\ cancelled' = TRUE
    /\ pc' = IF pc \in LoopPcs THEN "grace" ELSE "aborted"
    /\ sleepLeft' = IF pc \in LoopPcs THEN GraceDelay ELSE 0
    /\ new_chunks' = <<>>
    /\ chunk_to_delete' = 0
    /\ sinceStop' = 0
    /\ task' = [c \in Chunks |->
                  IF task[c] \in InFlight THEN "cancelled" ELSE task[c]]
    /\ UNCHANGED <<leftForSweep, detVars, clipVars, dlVars, monVars>>
    /\ UNCHANGED <<files, nextChunk, capture, processed_chunks, cleanup_buffer,
                   shutdown_event, todo, sweep, found, clipCalls, launched,
                   excs, delFails, delAttempts, sweepFailed>>

\* _final_cleanup after its grace sleep: for chunk_path in list(cleanup_buffer)
GraceEndCancelling ==
    /\ pc = "grace"
    /\ pc' = "fbuf"
    /\ sleepLeft' = 0
    /\ todo' = cleanup_buffer
    /\ task' = [c \in Chunks |->
                  IF task[c] \in InFlight THEN "cancelled" ELSE task[c]]
    /\ UNCHANGED <<leftForSweep, detVars, clipVars, dlVars, monVars>>
    /\ UNCHANGED <<files, nextChunk, capture, processed_chunks, cleanup_buffer,
                   shutdown_event, cancelled, new_chunks, sweep,
                   chunk_to_delete, sinceStop, found, clipCalls, launched,
                   excs, delFails, delAttempts, sweepFailed>>

GraceEnd ==
    /\ pc = "grace"
    /\ pc' = "fbuf"
    /\ sleepLeft' = 0
    /\ todo' = cleanup_buffer
    /\ UNCHANGED <<leftForSweep, detVars, clipVars, dlVars, monVars>>
    /\ UNCHANGED <<files, nextChunk, capture, processed_chunks, cleanup_buffer,
                   shutdown_event, cancelled, new_chunks, sweep,
                   chunk_to_delete, sinceStop, task, found, clipCalls,
                   launched, excs, delFails, delAttempts, sweepFailed>>

\* _final_cleanup, first loop: _safe_delete every path of the buffer
FinalDeleteBuffered ==
    /\ pc = "fbuf"
    /\ todo # <<>>
    /\ todo' = Tail(todo)
    /\ SafeDelete(Head(todo), "fbuf", 0, "retry_buf")
    /\ leftForSweep' = leftForSweep \ {Head(todo)}
    /\ UNCHANGED <<detVars, clipVars, dlVars, monVars>>
    /\ UNCHANGED <<nextChunk, capture, processed_chunks, cleanup_buffer,
                   shutdown_event, cancelled, new_chunks, sweep, sinceStop,
                   task, found, clipCalls, launched, excs, delAttempts,
                   sweepFailed>>

\* _final_cleanup, second loop: list the *.ts files left in the directory.
\* glob yields them in directory order, taken here to be name order: the
\* paths are handled independently of each other
FinalSweepStart ==
    /\ pc = "fbuf"
    /\ todo = <<>>
    /\ sweep' = SortedByName(GlobTs(files))
    /\ pc' = "fsweep"
    /\ UNCHANGED <<leftForSweep, detVars, clipVars, dlVars, monVars>>
    /\ UNCHANGED <<files, nextChunk, capture, processed_chunks, cleanup_buffer,
                   shutdown_event, cancelled, new_chunks, todo,
                   chunk_to_delete, sleepLeft, sinceStop, task, found,
                   clipCalls, launched, excs, delFails, delAttempts,
                   sweepFailed>>

\* _final_cleanup, second loop: _safe_delete every listed path
FinalDeleteSwept ==
    /\ pc = "fsweep"
    /\ sweep # <<>>
    /\ sweep' = Tail(sweep)
    /\ SafeDelete(Head(sweep), "fsweep", 0, "retry_sweep")
    /\ leftForSweep' = leftForSweep \ {Head(sweep)}
    /\ UNCHANGED <<detVars, clipVars, dlVars, monVars>>
    /\ UNCHANGED <<nextChunk, capture, processed_chunks, cleanup_buffer,
                   shutdown_event, cancelled, new_chunks, todo, sinceStop,
                   task, found, clipCalls, launched, excs, delAttempts,
                   sweepFailed>>

\* _final_cleanup returns, and start with it
FinalDone ==
    /\ pc = "fsweep"
    /\ sweep = <<>>
    /\ pc' = "done"
    /\ UNCHANGED <<leftForSweep, detVars, clipVars, dlVars, monVars>>
    /\ UNCHANGED <<files, nextChunk, capture, processed_chunks, cleanup_buffer,
                   shutdown_event, cancelled, new_chunks, todo, sweep,
                   chunk_to_delete, sleepLeft, sinceStop, task, found,
                   clipCalls, launched, excs, delFails, delAttempts,
                   sweepFailed>>

\* ------------------------------------------------------------ process_chunk
\* the arguments process_chunk passes to find_highlights
CallArgs(c) == <<Wav(c), "chunk_duration_seconds">>

\* what a call of find_highlights gives: a call that does not bind every
\* parameter raises TypeError (-1) before the detector runs; otherwise the
\* detector returns some number of highlights
DetectorOutcomes(args) ==
    IF Len(args) # FindHighlightsArity THEN {-1} ELSE 0 .. MaxFound

\* the return codes ffmpeg can end with: it may fail when the chunk file was
\* removed under it
ReturnCodes(c) == IF Ts(c) \in files THEN {0} ELSE {0, 1}

\* the worker coroutine is suspended in an await, or has returned: only then
\* does the event loop run a step of another task
WorkerSuspended == pc \in SleepPcs \cup {"done", "aborted"}

\* ffmpeg returns. rc # 0: RuntimeError, audio_chunk_path stays None and the
\* wav is left behind. rc = 0: find_highlights is called; highlights lead to
\* one process_and_create_clip call; the finally block removes the wav
TaskEndEffect(c) ==
    /\ task[c] = "extracting"
    /\ WorkerSuspended
    /\ \E rc \in ReturnCodes(c) :
         IF rc # 0
         THEN /\ task' = [task EXCEPT ![c] = "failed"]
              /\ UNCHANGED <<files, found, clipCalls>>
         ELSE \E n \in DetectorOutcomes(CallArgs(c)) :
                /\ found' = [found EXCEPT ![c] = n]
                /\ clipCalls' = [clipCalls EXCEPT
                                   ![c] = IF n > 0 THEN @ + 1 ELSE @]
                /\ task' = [task EXCEPT ![c] = "finished"]
                /\ files' = files \ {Wav(c)}
    /\ UNCHANGED <<leftForSweep, detVars, clipVars, dlVars, monVars>>
    /\ UNCHANGED <<nextChunk, capture, shutdown_event, cancelled, pc,
                   new_chunks, todo, sweep, chunk_to_delete, sleepLeft,
                   sinceStop, launched, excs, delFails, delAttempts,
                   sweepFailed>>

TaskEndRescheduling(c) ==
    /\ TaskEndEffect(c)
    /\ processed_chunks' = processed_chunks \ {c}
    /\ UNCHANGED cleanup_buffer

TaskEnd(c) ==
    /\ TaskEndEffect(c)
    /\ UNCHANGED watcherState

\* -------------------------------------------------------- HighlightDetector
SeqsUpTo(S, n) == UNION {[1 .. k -> S] : k \in 0 .. n}

Clutch == <<"c", "l", "u", "t", "c", "h">>

\* detection configurations a HighlightDetector is built with: the one of the
\* end-to-end example, and two with a short clip duration (an even and an odd
\* one), a second keyword and a per-streamer table
TestConfig ==
    [rms_peak_threshold |-> 7, clip_duration_seconds |-> 10,
     rms_weight |-> 6, keyword_weight |-> 4, hype_score_threshold |-> 8,
     max_clips_per_vod |-> 3,
     keywords |-> (Clutch :> 3),
     streamer_keywords |-> <<>>]

EvenConfig ==
    [rms_peak_threshold |-> 5, clip_duration_seconds |-> 2,
     rms_weight |-> 5, keyword_weight |-> 5, hype_score_threshold |-> 15,
     max_clips_per_vod |-> 1,
     keywords |-> (<<"g", "g">> :> 1) @@ (<<"G">> :> 2),
     streamer_keywords |-> ("s1" :> (<<"g", "g">> :> 3))]

OddConfig ==
    [rms_peak_threshold |-> 5, clip_duration_seconds |-> 1,
     rms_weight |-> 6, keyword_weight |-> 4, hype_score_threshold |-> 8,
     max_clips_per_vod |-> 3,
     keywords |-> (<<"g">> :> 1),
     streamer_keywords |-> ("s1" :> (<<"G", "G">> :> 2))]

\* a clip longer than the distance of two neighbouring peaks, a threshold that
\* peaks of different heights reach, and a score that needs no keyword
WideConfig ==
    [rms_peak_threshold |-> 5, clip_duration_seconds |-> 3,
     rms_weight |-> 10, keyword_weight |-> 5, hype_score_threshold |-> 5,
     max_clips_per_vod |-> 2,
     keywords |-> (<<"g">> :> 1),
     streamer_keywords |-> <<>>]

Configs == {TestConfig, EvenConfig, OddConfig, WideConfig}

\* the energy curve of the end-to-end example: 60 windows, 1.0 at index 30
TestCurve == [i \in 1 .. 60 |-> IF i = 31 THEN 1 ELSE 0]

\* energy curves _calculate_rms can give; the empty one stands for audio that
\* is unreadable or shorter than one window
Curves == SeqsUpTo(0 .. MaxEnergy, MaxWindows) \cup {TestCurve}

\* declared durations a caller may pass for a curve: the length of the audio,
\* a second more or less, and one second whatever the audio
Durations(x) ==
    IF Len(x) > MaxWindows + 1 THEN {Len(x)}
    ELSE {d \in {1, Len(x) - 1, Len(x), Len(x) + 1} : d > 0}

Streamers == {"s1", "s2"}

ExampleText ==
    <<"a", "n", " ", "a", "m", "a", "z", "i", "n", "g", " ",
      "c", "l", "u", "t", "c", "h", " ", "c", "l", "u", "t", "c", "h", " ",
      "p", "l", "a", "y">>

\* full texts the transcriber can return
Texts == SeqsUpTo({"g", "G"}, MaxText)
         \cup {ExampleText, <<"C", "L", "U", "T", "C", "H">>}

\* the inputs of the runs that the chunk tasks of one session make: every
\* task passes the same chunk_duration_seconds and the same streamer
SessionCurves == {x \in Curves : Len(x) = MaxWindows}
SessionDurations(x) == {MaxWindows}
SessionStreamers == {"s1"}
SessionTexts == {<<>>, <<"g", "g">>}

\* HighlightDetector(config): the detector exists and no run of it has been
\* called yet
NewDetector ==
    /\ detector = None
    /\ detector' \in Configs
    /\ rpc' = [r \in Runs |-> "idle"]
    /\ video_duration_sec' = [r \in Runs |-> 0]
    /\ streamer_name' = [r \in Runs |-> ""]
    /\ span' = [r \in Runs |-> 0]
    /\ candidate_peaks' = [r \in Runs |-> <<>>]
    /\ segment_audio_path' = [r \in Runs |-> None]
    /\ candidate_highlights' = [r \in Runs |-> <<>>]
    /\ result' = [r \in Runs |-> <<>>]
    /\ handled' = [r \in Runs |-> <<>>]
    /\ UNCHANGED <<segments, inflight, scored, rms_scores>>
    /\ UNCHANGED <<workerVars, clipVars, dlVars, monVars>>

\* the path of the sub-segment of the candidate at peak_idx in run r
PathOf(r, peak_idx) ==
    SegmentPath(StartTime(peak_idx, detector.clip_duration_seconds),
                EndTime(peak_idx, detector.clip_duration_seconds,
                        video_duration_sec[r]))

StartExtractionAll(r, cands) ==
    {<<r, cands[i][1], "extract">> : i \in 1 .. Len(cands)}

\* the loop body begins: await self._extract_audio_segment for the first of
\* the candidates left
StartExtraction(r, cands) == {<<r, cands[1][1], "extract">>}

AfterSkipBreak(rest) == <<>>

\* if not segment_audio_path: continue
AfterSkip(rest) == rest

AcceptsStrict(cfg, score, width) == score > cfg.hype_score_threshold * width

\* final_hype_score >= self.config.hype_score_threshold
Accepts(cfg, score, width) == score >= cfg.hype_score_threshold * width

\* the for loop goes on with the candidates in rest, or ends and the run
\* returns its sorted and capped list; calls are the calls left in flight
NextCandidate(r, rest, hs, calls) ==
    /\ candidate_peaks' = [candidate_peaks EXCEPT ![r] = rest]
    /\ IF rest = <<>>
       THEN /\ rpc' = [rpc EXCEPT ![r] = "returned"]
            /\ result' = [result EXCEPT
                             ![r] = Returned(hs, detector.max_clips_per_vod)]
            /\ inflight' = calls
       ELSE /\ rpc' = [rpc EXCEPT ![r] = "extract"]
            /\ result' = result
            /\ inflight' = calls \cup StartExtraction(r, rest)

\* find_highlights(audio_path_str, video_duration_sec, streamer_name), when
\* it is called on audio with the energy curve x, runs up to its first await
\* on ffmpeg, or returns [] before
FindHighlightsOn(r, x, d, s) ==
    /\ LET lo == MinOf({x[i] : i \in 1 .. Len(x)})
           hi == MaxOf({x[i] : i \in 1 .. Len(x)})
       IN  /\ video_duration_sec' = [video_duration_sec EXCEPT ![r] = d]
           /\ streamer_name' = [streamer_name EXCEPT ![r] = s]
           /\ span' = [span EXCEPT ![r] = IF Len(x) = 0 THEN 0 ELSE hi - lo]
           /\ IF Len(x) = 0 \/ hi - lo = 0
              THEN NextCandidate(r, <<>>, <<>>, inflight)
              ELSE \E peaks \in FindPeaks(x, detector.rms_peak_threshold,
                                          detector.clip_duration_seconds) :
                     NextCandidate(r,
                         IF AnyPeak(peaks)
                         THEN [i \in 1 .. Len(peaks) |->
                                  <<peaks[i], At(x, peaks[i]) - lo>>]
                         ELSE <<>>,
                         <<>>, inflight)
    /\ UNCHANGED <<detector, segment_audio_path, candidate_highlights,
                   handled, segments, scored>>
    /\ UNCHANGED <<workerVars, clipVars, dlVars, monVars>>

\* a run on the audio of any of the curves, with rms_scores not kept
FindHighlights(r, curves, streamers) ==
    /\ detector # None
    /\ rpc[r] = "idle"
    /\ \E x \in curves, s \in streamers :
         \E d \in IF curves = Curves THEN Durations(x)
                  ELSE SessionDurations(x) :
             FindHighlightsOn(r, x, d, s)
    /\ UNCHANGED rms_scores

\* the same call of run 1, with the curve _calculate_rms gave kept, so that
\* what the run does can be compared with it
FindHighlightsKept ==
    /\ detector # None
    /\ rpc[1] = "idle"
    /\ \E x \in Curves, s \in Streamers : \E d \in Durations(x) :
         /\ FindHighlightsOn(1, x, d, s)
         /\ rms_scores' = x

ExtractOutcomesAnyWindow(start2, end2) == {"ok", "failed", "failed_partial"}

\* the ways ffmpeg -ss start -to end can end: with return code 0 and the
\* segment written, or with another return code, having written nothing or a
\* part of the segment. ffmpeg checks its options before it opens the output:
\* with -to not after -ss it aborts ("-to value smaller than -ss") and writes
\* nothing
ExtractOutcomes(start2, end2) ==
    IF end2 <= start2 THEN {"failed"}
    ELSE {"ok", "failed", "failed_partial"}

\* _extract_audio_segment returns. rc # 0: it returns None, the candidate is
\* skipped and the finally block has no path to remove. rc = 0: the path is
\* kept and await self.transcriber.transcribe begins
ExtractReturns(r) ==
    /\ detector # None
    /\ rpc[r] = "extract"
    /\ LET c == Head(candidate_peaks[r])
           path == PathOf(r, c[1])
           calls == inflight \ {<<r, c[1], "extract">>}
       IN  \E o \in ExtractOutcomes(
                        StartTime(c[1], detector.clip_duration_seconds),
                        EndTime(c[1], detector.clip_duration_seconds,
                                video_duration_sec[r])) :
             IF o = "ok"
             THEN /\ segments' = segments \cup {path}
                  /\ segment_audio_path' =
                        [segment_audio_path EXCEPT ![r] = path]
                  /\ rpc' = [rpc EXCEPT ![r] = "transcribe"]
                  /\ inflight' = calls \cup {<<r, c[1], "transcribe">>}
                  /\ UNCHANGED <<candidate_peaks, result, handled>>
             ELSE /\ segments' = IF o = "failed_partial"
                                 THEN segments \cup {path} ELSE segments
                  /\ handled' = [handled EXCEPT
                        ![r] = Append(@, <<c[1], "extract_failed">>)]
                  /\ NextCandidate(r, AfterSkip(Tail(candidate_peaks[r])),
                                   candidate_highlights[r], calls)
                  /\ UNCHANGED segment_audio_path
    /\ UNCHANGED <<detector, video_duration_sec, streamer_name, span,
                   candidate_highlights, scored, rms_scores>>
    /\ UNCHANGED <<workerVars, clipVars, dlVars, monVars>>

\* what await transcribe(path) gives: a failure, or a result with a full text
TranscribeOutcomes(texts) ==
    {<<"failure", <<>>>>} \cup {<<"text", t>> : t \in texts}

\* transcribe returns or fails. A failure is an exception in the try block,
\* which has no except clause: the finally block runs and the exception
\* leaves find_highlights. Otherwise the candidate is scored and collected
\* when its score reaches the threshold; the finally block removes the
\* segment if it is there, and the loop goes on
TranscribeReturns(r, texts) ==
    /\ detector # None
    /\ rpc[r] = "transcribe"
    /\ LET c == Head(candidate_peaks[r])
           path == segment_audio_path[r]
           calls == inflight \ {<<r, c[1], "transcribe">>}
       IN  /\ segments' = segments \ {path}
           /\ segment_audio_path' = [segment_audio_path EXCEPT ![r] = None]
           /\ \E o \in TranscribeOutcomes(texts) :
                IF o[1] = "failure"
                THEN /\ rpc' = [rpc EXCEPT ![r] = "raised"]
                     /\ inflight' = calls
                     /\ handled' = [handled EXCEPT
                           ![r] = Append(@, <<c[1], "transcribe_failed">>)]
                     /\ UNCHANGED <<candidate_peaks, candidate_highlights,
                                    result, scored>>
                ELSE LET t == o[2]
                         keyword_score ==
                             CalculateKeywordScore(detector, t,
                                                   streamer_name[r])
                         final_hype_score ==
                             FinalHypeScore(detector, c[2], span[r],
                                            keyword_score)
                         accepted == Accepts(detector, final_hype_score,
                                             span[r])
                         hs == IF accepted
                               THEN Append(candidate_highlights[r],
                                      [start |-> StartTime(c[1],
                                          detector.clip_duration_seconds),
                                       end |-> EndTime(c[1],
                                          detector.clip_duration_seconds,
                                          video_duration_sec[r]),
                                       score |-> final_hype_score,
                                       text |-> t])
                               ELSE candidate_highlights[r]
                     IN  /\ scored' = [run |-> r, peak_idx |-> c[1],
                                       energy |-> c[2], text |-> t,
                                       combined_keywords |->
                                           CombinedKeywords(
                                               detector.keywords,
                                               StreamerSpecific(detector,
                                                   streamer_name[r])),
                                       keyword_score |-> keyword_score,
                                       score |-> final_hype_score]
                         /\ candidate_highlights' =
                               [candidate_highlights EXCEPT ![r] = hs]
                         /\ handled' = [handled EXCEPT
                               ![r] = Append(@, <<c[1],
                                  IF accepted THEN "accepted"
                                  ELSE "rejected">>)]
                         /\ NextCandidate(r, Tail(candidate_peaks[r]), hs,
                                          calls)
    /\ UNCHANGED <<detector, video_duration_sec, streamer_name, span,
                   rms_scores>>
    /\ UNCHANGED <<workerVars, clipVars, dlVars, monVars>>

\* --------------------------------------------------- process_and_create_clip
\* stop_after_attempt(3) of upload_clip
StopAfterAttempt == 3

\* config.storage.storage_type
StorageTypes == {"local", "s3", "r2"}

\* config.publishing.upload_strategy; "OTHER" is any unknown value
UploadStrategies == {"PULL_FROM_URL", "MULTIPART", "OTHER"}

\* process_and_create_clip(config, video_path, streamer, dry_run) is called
\* and runs up to await _extract_audio(video_path)
ProcessAndCreateClip ==
    /\ clip = None
    /\ \E st \in StorageTypes, dr \in BOOLEAN, us \in UploadStrategies :
         clip' = [pc |-> "extract_audio", storage_type |-> st,
                  dry_run |-> dr, upload_strategy |-> us,
                  temp_files |-> {}, disk |-> {}, external |-> <<>>,
                  attempt_number |-> 0, attempts |-> <<>>,
                  uploaded |-> "none"]
    /\ UNCHANGED <<workerVars, detVars, dlVars, monVars>>

\* the finally block of the call in state c, which then ends as ends says:
\* os.remove for every temp file that exists; an OSError is logged and the
\* file stays
Finally(c, ends) ==
    \E stay \in SUBSET (c.temp_files \cap c.disk) :
        clip' = [c EXCEPT !.pc = ends,
                          !.disk = (c.disk \ c.temp_files) \cup stay]

\* _extract_audio returns the WAV path, or ffmpeg fails and it raises
\* RuntimeError, having written nothing or a part of the file
ClipAudioReturns ==
    /\ clip # None
    /\ clip.pc = "extract_audio"
    /\ \/ clip' = [clip EXCEPT !.pc = "transcribe",
                                !.temp_files = @ \cup {"wav"},
                                !.disk = @ \cup {"wav"}]
       \/ \E written \in SUBSET {"wav"} :
            Finally([clip EXCEPT !.disk = @ \cup written], "raised")
    /\ UNCHANGED <<workerVars, detVars, dlVars, monVars>>

\* transcribe returns and the .srt file is written, or it fails
ClipTranscribeReturns ==
    /\ clip # None
    /\ clip.pc = "transcribe"
    /\ \E o \in TranscribeOutcomes({<<>>}) :
         IF o[1] = "failure"
         THEN Finally(clip, "raised")
         ELSE clip' = [clip EXCEPT !.pc = "render",
                                   !.temp_files = @ \cup {"srt"},
                                   !.disk = @ \cup {"srt"}]
    /\ UNCHANGED <<workerVars, detVars, dlVars, monVars>>

\* render_vertical_clip returns with the final clip written, or ffmpeg fails
\* and it raises RuntimeError. Then: if storage_type in ["s3", "r2"], await
\* storage.upload, else upload_clip on the local path
ClipRenderReturns ==
    /\ clip # None
    /\ clip.pc = "render"
    /\ \/ clip' = [clip EXCEPT !.disk = @ \cup {"final"},
                                !.pc = IF clip.storage_type \in {"s3", "r2"}
                                       THEN "storage_upload"
                                       ELSE "upload_clip"]
       \/ Finally(clip, "raised")
    /\ UNCHANGED <<workerVars, detVars, dlVars, monVars>>

\* storage.upload(final_clip_path, name) returns the remote key: the clip has
\* been sent to the remote storage; or it raises
ClipStorageUploadReturns ==
    /\ clip # None
    /\ clip.pc = "storage_upload"
    /\ \/ clip' = [clip EXCEPT !.pc = "upload_clip",
                                !.external = Append(@, "storage.upload")]
       \/ Finally(clip, "raised")
    /\ UNCHANGED <<workerVars, detVars, dlVars, monVars>>

\* what one attempt of upload_clip (dry_run false) can do: the requests it
\* sends and how it ends, with True, with False, or by raising
\* PULL_FROM_URL: get_public_url gives nothing (False) or raises; _get_headers
\* raises without a token; the POST succeeds, answers with an error status
\* (HTTPStatusError is caught: False) or fails otherwise, which is not caught
\* MULTIPART: the file is missing (False); every exception is caught (False);
\* the POST and then the PUT are sent
\* another strategy: False
AttemptOutcomes(strategy) ==
    CASE strategy = "PULL_FROM_URL" ->
           {[sent |-> <<>>, ends |-> "false"],
            [sent |-> <<>>, ends |-> "raises"],
            [sent |-> <<"tiktok.post">>, ends |-> "true"],
            [sent |-> <<"tiktok.post">>, ends |-> "false"],
            [sent |-> <<"tiktok.post">>, ends |-> "raises"]}
      [] strategy = "MULTIPART" ->
           {[sent |-> <<>>, ends |-> "false"],
            [sent |-> <<"tiktok.post">>, ends |-> "false"],
            [sent |-> <<"tiktok.post", "tiktok.put">>, ends |-> "false"],
            [sent |-> <<"tiktok.post", "tiktok.put">>, ends |-> "true"]}
      [] OTHER -> {[sent |-> <<>>, ends |-> "false"]}

RetriesUnlessTrue(ends) == ends # "true"

\* tenacity's default retry condition: the attempt raised an exception
Retries(ends) == ends = "raises"

\* one attempt of upload_clip under @retry(stop_after_attempt(3),
\* wait_fixed(5)): with dry_run it returns True at once; an attempt that
\* raises is repeated after the wait unless it was the third, then RetryError
\* leaves upload_clip; a returned value ends upload_clip, and the finally
\* block of process_and_create_clip runs
ClipUploadAttempt ==
    /\ clip # None
    /\ clip.pc = "upload_clip"
    /\ LET c == [clip EXCEPT !.attempt_number = @ + 1]
       IN  IF clip.dry_run
           THEN Finally([c EXCEPT !.uploaded = "true",
                                  !.attempts = Append(@, "true")], "done")
           ELSE \E o \in AttemptOutcomes(clip.upload_strategy) :
                  LET d == [c EXCEPT !.external = @ \o o.sent,
                                     !.attempts = Append(@, o.ends)]
                  IN  IF Retries(o.ends)
                      THEN IF d.attempt_number < StopAfterAttempt
                           THEN clip' = [d EXCEPT !.pc = "retry_wait"]
                           ELSE Finally(d, "raised")
                      ELSE Finally([d EXCEPT !.uploaded = o.ends], "done")
    /\ UNCHANGED <<workerVars, detVars, dlVars, monVars>>

\* the wait between two attempts is over
ClipRetry ==
    /\ clip # None
    /\ clip.pc = "retry_wait"
    /\ clip' = [clip EXCEPT !.pc = "upload_clip"]
    /\ UNCHANGED <<workerVars, detVars, dlVars, monVars>>

\* ------------------------------------------------------------------ Monitor
\* strftime("%Y%m%d_%H%M%S") of the n-th launch time
Timestamp(n) == <<<<"1">>, <<"2">>, <<"3">>, <<"4">>, <<"5">>, <<"6">>>>[n]

\* chunk_dir_name = f"{streamer}_stream_{timestamp}"
ChunkDirName(streamer, n) ==
    streamer \o <<"_", "s", "t", "r", "e", "a", "m", "_">> \o Timestamp(n)

\* streamer in path.name: the name holds the streamer's name as a substring
NameContains(name, streamer) ==
    \E i \in 0 .. Len(name) - Len(streamer) :
        \A j \in 1 .. Len(streamer) : name[i + j] = streamer[j]

Keys(dict) == {dict[i] : i \in 1 .. Len(dict)}

\* every order in which the elements of S can be listed
RECURSIVE Orders(_)
Orders(S) ==
    IF S = {} THEN {<<>>}
    ELSE UNION {{<<x>> \o o : o \in Orders(S \ {x})} : x \in S}

IsDownloadingNever(streamer, dict) == FALSE

\* is_downloading = streamer in self.active_download_tasks
IsDownloading(streamer, dict) == streamer \in Keys(dict)

\* the streamers the first loop of a cycle launches a download for
ToLaunch(live_statuses, dict) ==
    {s \in MonitorStreamers : live_statuses[s] /\ ~IsDownloading(s, dict)}

\* done_tasks: the keys whose task is done, in the order of the dict
DoneTasks(dict, tasks) == SelectSeq(dict, LAMBDA s : tasks[s] = "done")

\* the directories the cleanup of one streamer hands to shutil.rmtree
DirsOf(streamer, dirs) == {d \in dirs : NameContains(d, streamer)}

\* the loop over done_tasks: for each streamer rmtree of its directories, then
\* del of its key. An rmtree that raises leaves the loop with some of the
\* streamer's directories removed; the results are the states the loop can
\* end in
RECURSIVE CleanupDone(_, _, _, _)
CleanupDone(done, dirs, dict, can_raise) ==
    IF done = <<>>
    THEN {[dirs |-> dirs, dict |-> dict, raised |-> FALSE]}
    ELSE LET s == Head(done)
             mine == DirsOf(s, dirs)
         IN  CleanupDone(Tail(done), dirs \ mine,
                         SelectSeq(dict, LAMBDA k : k # s), can_raise)
             \cup (IF can_raise
                   THEN {[dirs |-> dirs \ gone, dict |-> dict, raised |-> TRUE] :
                            gone \in (SUBSET mine) \ {mine}}
                   ELSE {})

OnCycleExceptionEnd == "ended"

\* except Exception as e: logger.error(...); the loop goes on to its sleep
OnCycleException == "cycle"

\* the statuses a query can report: a launch needs a time stamp of the model
StatusesAt(n) ==
    {l \in [MonitorStreamers -> BOOLEAN] :
        n > MaxSessions => \A s \in MonitorStreamers : ~l[s]}

\* an attempt of get_streamers_status fails: tenacity waits and calls again,
\* and after the last attempt raises RetryError into the cycle, whose handler
\* logs it
QueryFails ==
    /\ mpc \in {"cycle", "retry_wait"}
    /\ IF attempt_number + 1 < StatusStopAfterAttempt
       THEN /\ attempt_number' = attempt_number + 1
            /\ mpc' = "retry_wait"
            /\ UNCHANGED cycle_result
       ELSE /\ attempt_number' = 0
            /\ mpc' = OnCycleException
            /\ cycle_result' = "raised"
    /\ UNCHANGED <<active_download_tasks, dtask, running, session_dir,
                   session_dirs, stamp, rm_fails>>
    /\ UNCHANGED <<workerVars, detVars, clipVars, dlVars>>

\* an attempt of the query returns live_statuses: the cycle launches the
\* downloads, cleans up after the finished ones and reaches its sleep, where
\* the tasks it created start and make their session directories
MonitoringCycle ==
    /\ mpc \in {"cycle", "retry_wait"}
    /\ attempt_number' = 0
    /\ \E live_statuses \in StatusesAt(stamp) :
         LET new == ToLaunch(live_statuses, active_download_tasks)
             tasks == [s \in MonitorStreamers |->
                         IF s \in new THEN "running" ELSE dtask[s]]
             made == [s \in MonitorStreamers |->
                        IF s \in new THEN ChunkDirName(s, stamp)
                        ELSE session_dir[s]]
         IN  \E order \in Orders(new \ Keys(active_download_tasks)) :
               LET dict == active_download_tasks \o order
               IN  \E c \in CleanupDone(DoneTasks(dict, tasks), session_dirs,
                                        dict, rm_fails < MaxRmFail) :
                     /\ active_download_tasks' = c.dict
                     /\ dtask' = [s \in MonitorStreamers |->
                                    IF s \in Keys(c.dict) THEN tasks[s]
                                    ELSE "none"]
                     /\ session_dir' = [s \in MonitorStreamers |->
                                          IF s \in Keys(c.dict) THEN made[s]
                                          ELSE None]
                     /\ running' = [s \in MonitorStreamers |->
                                      IF s \in new THEN running[s] + 1
                                      ELSE running[s]]
                     /\ session_dirs' = c.dirs \cup {made[s] : s \in new}
                     /\ stamp' = IF new = {} THEN stamp ELSE stamp + 1
                     /\ rm_fails' = IF c.raised THEN rm_fails + 1 ELSE rm_fails
                     /\ cycle_result' = IF c.raised THEN "raised" ELSE "ok"
                     /\ mpc' = IF c.raised THEN OnCycleException ELSE "cycle"
    /\ UNCHANGED <<workerVars, detVars, clipVars, dlVars>>

\* a download task ends, by a return or by an exception of download_stream
DownloadTaskDone(s) ==
    /\ mpc # "ended"
    /\ running[s] > 0
    /\ running' = [running EXCEPT ![s] = @ - 1]
    /\ dtask' = [dtask EXCEPT ![s] = IF @ = "running" THEN "done" ELSE @]
    /\ UNCHANGED <<mpc, attempt_number, active_download_tasks, session_dir,
                   session_dirs, stamp, rm_fails, cycle_result>>
    /\ UNCHANGED <<workerVars, detVars, clipVars, dlVars>>

\* Ctrl+C: asyncio.run cancels the monitor and its tasks, then
\* Monitor.shutdown removes every session directory
Shutdown ==
    /\ mpc # "ended"
    /\ mpc' = "ended"
    /\ attempt_number' = 0
    /\ dtask' = [s \in MonitorStreamers |->
                   IF dtask[s] = "running" THEN "done" ELSE dtask[s]]
    /\ running' = [s \in MonitorStreamers |-> 0]
    /\ session_dirs' = {}
    /\ UNCHANGED <<active_download_tasks, session_dir, stamp, rm_fails,
                   cycle_result>>
    /\ UNCHANGED <<workerVars, detVars, clipVars, dlVars>>

\* ------------------------------------------------------------ specification
\* the capture process, download_stream and the event loop
EnvNext ==
    \/ ChunkAppears
    \/ CaptureEnds
    \/ Stop
    \/ Cancel

\* the steps of ProcessingWorker.start
WorkerNext ==
    \/ Poll
    \/ ExitLoop
    \/ ProcessChunk
    \/ RetryDelete
    \/ Wake
    \/ GraceEnd
    \/ FinalDeleteBuffered
    \/ FinalSweepStart
    \/ FinalDeleteSwept
    \/ FinalDone

Next ==
    \/ EnvNext
    \/ WorkerNext
    \/ \E c \in Chunks : TaskEnd(c)

Spec == Init /\ [][Next]_vars

\* one call of download_stream with the worker it creates: the worker task
\* runs from the call on, whatever becomes of the coroutine
DownloadNext ==
    \/ DownloadStream
    \/ GatherReturns
    \/ GatherRaises
    \/ GatherCancelled
    \/ AwaitWorkerCancelled
    \/ AwaitWorkerReturns
    \/ /\ download_stream # "entry"
       /\ \/ ChunkAppears
          \/ CaptureEnds
          \/ WorkerNext
          \/ \E c \in Chunks : TaskEnd(c)

DownloadSpec == Init /\ [][DownloadNext]_vars

\* the monitor, the status service and the download tasks it launched
MonitorNext ==
    \/ QueryFails
    \/ MonitoringCycle
    \/ \E s \in MonitorStreamers : DownloadTaskDone(s)
    \/ Shutdown

MonitorSpec == Init /\ [][MonitorNext]_vars

\* the worker when no chunk task ever completes: every extraction hangs. The
\* event loop keeps running the worker coroutine, so every step of start()
\* that is ready is eventually taken
StalledNext ==
    \/ EnvNext
    \/ WorkerNext

StalledSpec ==
    /\ Init
    /\ [][StalledNext]_vars
    /\ WF_vars(Poll)
    /\ WF_vars(ExitLoop)
    /\ WF_vars(ProcessChunk)
    /\ WF_vars(RetryDelete)
    /\ WF_vars(Wake)

\* one find_highlights run of a detector, on any audio, called with any
\* declared duration and streamer
DetNext ==
    \/ NewDetector
    \/ FindHighlights(1, Curves, Streamers)
    \/ ExtractReturns(1)
    \/ TranscribeReturns(1, Texts)

DetSpec == Init /\ [][DetNext]_vars

\* the runs of the chunk tasks of one session: they share the detector and
\* the session directory and interleave at their awaits
SessionNext ==
    \/ NewDetector
    \/ \E r \in Runs :
         \/ FindHighlights(r, SessionCurves, SessionStreamers)
         \/ ExtractReturns(r)
         \/ TranscribeReturns(r, SessionTexts)

SessionSpec == Init /\ [][SessionNext]_vars

\* one find_highlights run as in DetSpec, with its energy curve kept
CurveNext ==
    \/ NewDetector
    \/ FindHighlightsKept
    \/ ExtractReturns(1)
    \/ TranscribeReturns(1, Texts)

CurveSpec == Init /\ [][CurveNext]_vars

\* one call of process_and_create_clip
ClipNext ==
    \/ ProcessAndCreateClip
    \/ ClipAudioReturns
    \/ ClipTranscribeReturns
    \/ ClipRenderReturns
    \/ ClipStorageUploadReturns
    \/ ClipUploadAttempt
    \/ ClipRetry

ClipSpec == Init /\ [][ClipNext]_vars

\* ------------------------------------------------------------------ claims
Range(q) == {q[i] : i \in 1 .. Len(q)}

\* chunk files written so far that are no longer on disk
Removed == {c \in 1 .. (nextChunk - 1) : Ts(c) \notin files}

\* C1: with capacity 5, once 6 chunks have been discovered and no deletion has
\* failed, exactly one deletion attempt has been made and one file removed
C1Claim ==
    (pc \in LoopPcs /\ Len(launched) = Capacity + 1 /\ delFails = 0)
        => (delAttempts = 1 /\ Cardinality(Removed) = 1)

\* C2: while the polling loop runs, the file of every record that is still in
\* the trailing buffer is on disk (the loop deletes only what has left it)
C2Claim ==
    pc \in LoopPcs => \A c \in Range(cleanup_buffer) : Ts(c) \in files

\* C3 as stated: after stop(), when final cleanup has finished, no file is
\* left in the session directory
C3Original ==
    (pc = "done" /\ shutdown_event) => files = {}

\* C3 as amended: after stop(), when final cleanup has finished, every .ts
\* file is gone, buffered or not, scheduled or not, except those on which both
\* removal attempts of the sweep raised OSError
C3Amended ==
    (pc = "done" /\ shutdown_event)
        => \A c \in Chunks : Ts(c) \in files => c \in sweepFailed

\* final cleanup has removed a file that was never scheduled and files that
\* were still in the buffer
C3Witness ==
    /\ pc = "done"
    /\ shutdown_event
    /\ \E c \in Removed : c \notin processed_chunks
    /\ \E c \in Removed : c \in Range(cleanup_buffer)
    /\ \A c \in Chunks : Ts(c) \notin files

\* C4: after stop() the polling loop is left within one poll interval
C4Claim ==
    (shutdown_event /\ pc \in LoopPcs) => sinceStop <= PollInterval

\* C5 as stated: the polling loop ends only when stop() has been called
C5Original ==
    pc \notin LoopPcs => shutdown_event

\* C5 as amended: an exception in a poll iteration does not end the loop; the
\* loop ends only when stop() has been called or the worker task is cancelled
C5Amended ==
    pc \notin LoopPcs => (shutdown_event \/ cancelled)

\* after an exception the loop is polling again and has found new chunks
C5Witness ==
    /\ excs > 0
    /\ pc = "iter"
    /\ ~shutdown_event
    /\ ~cancelled

\* C6: a chunk task whose extraction succeeded has run the detector, and has
\* called the clip pipeline once if highlights were found, else not at all
C6Claim ==
    \A c \in Chunks :
        task[c] = "finished"
            => /\ found[c] >= 0
               /\ clipCalls[c] = IF found[c] > 0 THEN 1 ELSE 0

\* C7: the watcher never cancels a chunk task (only the event loop's shutdown
\* does), and final cleanup removes the chunk files whatever state the tasks
\* are in
C7Thm ==
    /\ cancelled \/ \A c \in Chunks : task[c] # "cancelled"
    /\ (pc = "done" /\ shutdown_event /\ delFails = 0)
           => \A c \in Chunks : Ts(c) \notin files

\* eviction and final cleanup have deleted the files of chunks whose tasks
\* are all still in flight
C7Witness ==
    /\ pc = "done"
    /\ ~cancelled
    /\ Len(launched) > Capacity
    /\ \A c \in Range(launched) : task[c] = "extracting" /\ Ts(c) \notin files

\* C8: when no chunk task ever completes, a chunk file on disk is still
\* scheduled (and buffered) by a later poll, unless the loop has ended
C8Thm ==
    \A c \in Chunks :
        (Ts(c) \in files /\ c \notin processed_chunks)
            ~> (c \in processed_chunks \/ pc \notin LoopPcs)

\* more chunks than the buffer holds have been scheduled and evicted while no
\* task has completed
C8Witness ==
    /\ pc \in LoopPcs
    /\ Len(launched) > Capacity
    /\ delAttempts >= 2
    /\ \A c \in Range(launched) : task[c] = "extracting"

\* C9: tasks are launched in increasing file-name order
C9Thm ==
    \A i \in 1 .. Len(launched) - 1 : launched[i] < launched[i + 1]

\* a poll that found several new files after earlier polls launched others
C9Witness ==
    /\ pc = "iter"
    /\ Len(new_chunks) >= 2
    /\ Len(launched) >= 2
    /\ Head(new_chunks) > launched[Len(launched)]

\* C10: a step of a chunk task leaves processed_chunks and cleanup_buffer
\* unchanged
C10Thm ==
    [][(\E c \in Chunks : task[c] = "extracting"
                          /\ task'[c] \in {"failed", "finished"})
          => UNCHANGED watcherState]_vars

\* a task has run to its end while its chunk is scheduled and buffered
C10Witness ==
    \E c \in Chunks :
        /\ task[c] = "finished"
        /\ c \in processed_chunks
        /\ c \in Range(cleanup_buffer)

\* C11: a failed removal is retried once, after the 1 s sleep; a second failure
\* raises nothing into the polling loop (the loop goes on with its iteration),
\* the file stays on disk, and final cleanup, when it runs to its end, has
\* handed the file to _safe_delete again
C11Inv ==
    /\ pc \in RetryPcs => /\ sleepLeft <= RetryDelay
                          /\ Ts(chunk_to_delete) \in files
    /\ pc = "done" => leftForSweep = {}

C11Step ==
    (pc = "retry_loop" /\ pc' # pc /\ cancelled' = cancelled)
        => /\ pc' \in {"iter", "sleep"}
           /\ excs' = excs
           /\ delFails' > delFails
                 => /\ Ts(chunk_to_delete) \in files'
                    /\ chunk_to_delete \in leftForSweep'

C11Thm == []C11Inv /\ [][C11Step]_vars

\* both attempts of the loop failed on a file that then left the buffer, and
\* the final sweep is about to hand it to _safe_delete
C11Witness ==
    /\ pc = "fsweep"
    /\ sweep # <<>>
    /\ Head(sweep) \in leftForSweep
    /\ Head(sweep) \notin Range(cleanup_buffer)

\* C12: when no deletion has failed, at the end of a poll iteration at most
\* Capacity discovered chunk files are on disk
C12Thm ==
    (pc = "sleep" /\ delFails = 0)
        => Cardinality({c \in processed_chunks : Ts(c) \in files}) <= Capacity

\* every chunk of the session has been discovered, more than the buffer
\* holds, and the loop has kept the number of files on disk below the capacity
C12Witness ==
    /\ pc = "sleep"
    /\ delFails = 0
    /\ Len(launched) = MaxChunks
    /\ nextChunk > MaxChunks
    /\ Cardinality({c \in processed_chunks : Ts(c) \in files}) = Capacity - 1

\* the path of the sub-segment a run in flight is writing or reading
CurrentPath(r) == PathOf(r, Head(candidate_peaks[r])[1])

CallPcs == {"extract", "transcribe"}

\* C13: two runs of one session that are in flight at the same time never
\* work on the same temporary sub-segment path
C13Claim ==
    detector # None =>
        \A r1, r2 \in Runs :
            (r1 # r2 /\ rpc[r1] \in CallPcs /\ rpc[r2] \in CallPcs)
                => CurrentPath(r1) # CurrentPath(r2)

\* C14: a run in which a transcription failed has not raised: it goes on
\* with its remaining candidates or has returned
C14Claim ==
    detector # None =>
        \A r \in Runs :
            (\E i \in 1 .. Len(handled[r]) :
                 handled[r][i][2] = "transcribe_failed")
                => rpc[r] \in CallPcs \cup {"returned"}

\* C15: the step in which the extraction of a candidate fails neither
\* transcribes nor scores the candidate and collects nothing; the run goes on
\* with the extraction of the next candidate, or returns when none is left
C15Step ==
    \A r \in Runs :
        (/\ detector # None
         /\ Len(handled'[r]) = Len(handled[r]) + 1
         /\ handled'[r][Len(handled'[r])][2] = "extract_failed")
            => LET c == Head(candidate_peaks[r])
                   rest == Tail(candidate_peaks[r])
               IN  /\ handled'[r][Len(handled'[r])][1] = c[1]
                   /\ candidate_highlights' = candidate_highlights
                   /\ scored' = scored
                   /\ <<r, c[1], "transcribe">> \notin inflight'
                   /\ IF rest = <<>>
                      THEN rpc'[r] = "returned"
                      ELSE /\ rpc'[r] = "extract"
                           /\ candidate_peaks'[r] = rest
                           /\ <<r, rest[1][1], "extract">> \in inflight'

C15Thm == [][C15Step]_vars

\* the extraction of the first candidate failed and the second candidate has
\* been scored and collected
C15Witness ==
    /\ detector # None
    /\ Len(handled[1]) = 2
    /\ handled[1][1][2] = "extract_failed"
    /\ handled[1][2][2] = "accepted"
    /\ rpc[1] = "returned"
    /\ Len(result[1]) = 1

\* C16: once the handling of a candidate has ended, however it ended, the
\* sub-segment file of that candidate is not on disk
C16Claim ==
    detector # None =>
        \A i \in 1 .. Len(handled[1]) :
            PathOf(1, handled[1][i][1]) \notin segments

\* C17: a run has at most one extraction or transcription call in flight, and
\* it takes its candidates in increasing index order
C17Thm ==
    detector # None =>
        \A r \in Runs :
            /\ Cardinality({c \in inflight : c[1] = r}) <= 1
            /\ \A i, j \in 1 .. Len(handled[r]) :
                  i < j => handled[r][i][1] < handled[r][j][1]
            /\ \A c \in inflight : \A i \in 1 .. Len(handled[r]) :
                  c[1] = r => handled[r][i][1] < c[2]

\* the second candidate of a run is being transcribed after the first one
\* has been handled
C17Witness ==
    /\ detector # None
    /\ rpc[1] = "transcribe"
    /\ Len(handled[1]) = 1
    /\ Len(candidate_peaks[1]) = 1
    /\ inflight = {<<1, candidate_peaks[1][1][1], "transcribe">>}

\* the run of the end-to-end example: the 60-window curve with its one peak
\* at 30, a declared duration of 60, and the candidate transcribed
ExampleRun ==
    /\ detector = TestConfig
    /\ rpc[1] = "returned"
    /\ video_duration_sec[1] = 60
    /\ Len(handled[1]) = 1
    /\ handled[1][1][1] = 30
    /\ handled[1][1][2] \in {"accepted", "rejected"}

ClutchTexts == {ExampleText, <<"C", "L", "U", "T", "C", "H">>}

C19Thm ==
    /\ scored # None =>
          LET r == scored.run
              reached ==
                  scored.energy * detector.rms_weight
                      + scored.keyword_score * detector.keyword_weight * span[r]
                  >= detector.hype_score_threshold * span[r]
              collected ==
                  \E i \in 1 .. Len(candidate_highlights[r]) :
                      /\ candidate_highlights[r][i].start
                            = StartTime(scored.peak_idx,
                                        detector.clip_duration_seconds)
                      /\ candidate_highlights[r][i].text = scored.text
          IN  collected <=> reached
    /\ detector # None =>
          \A r \in Runs :
              \A h \in Range(candidate_highlights[r]) \cup Range(result[r]) :
                  h.score >= detector.hype_score_threshold * span[r]

\* a candidate whose score equals the threshold has been collected
C19Witness ==
    /\ scored # None
    /\ scored.score = detector.hype_score_threshold * span[1]
    /\ \E i \in 1 .. Len(handled[1]) :
          handled[1][i] = <<scored.peak_idx, "accepted">>
    /\ Len(candidate_highlights[1]) > 0

\* k occurs in t when case is ignored
OccursIn(k, t) ==
    \E i \in 0 .. (Len(t) - Len(k)) :
        \A j \in 1 .. Len(k) : LowerChar(t[i + j]) = LowerChar(k[j])

RECURSIVE SumOfWeights(_, _)
SumOfWeights(keys, table) ==
    IF keys = {} THEN 0
    ELSE LET k == CHOOSE k \in keys : TRUE
         IN  table[k] + SumOfWeights(keys \ {k}, table)

\* the keyword table of a streamer: the streamer's weight where the streamer
\* has one, else the general weight
TableOf(streamer) ==
    LET own == IF streamer \in DOMAIN detector.streamer_keywords
               THEN detector.streamer_keywords[streamer] ELSE <<>>
    IN  [k \in DOMAIN detector.keywords \cup DOMAIN own |->
            IF k \in DOMAIN own THEN own[k] ELSE detector.keywords[k]]

\* C20: the keyword score of a transcript is the sum of the weights of the
\* keywords of the merged table that occur in it, case ignored, each counted
\* once (the transcript with "clutch" twice scores 3 against {"clutch": 3})
C20Thm ==
    scored # None =>
        LET table == TableOf(streamer_name[scored.run])
        IN  /\ scored.keyword_score
                  = SumOfWeights({k \in DOMAIN table : OccursIn(k, scored.text)},
                                 table)
            /\ (detector = TestConfig /\ scored.text = ExampleText)
                  => scored.keyword_score = 3

C20Witness ==
    /\ scored # None
    /\ detector = TestConfig
    /\ scored.text = ExampleText
    /\ scored.keyword_score = 3

\* C21: the table a candidate is scored with is the merge of the general table
\* and the table of the run's streamer: the streamer's weight for a key of
\* both, every key of only one table with its weight, and exactly the general
\* table for a streamer that has none
C21Thm ==
    scored # None =>
        LET used == scored.combined_keywords
            general == detector.keywords
            streamer == streamer_name[scored.run]
            known == streamer \in DOMAIN detector.streamer_keywords
            own == IF known THEN detector.streamer_keywords[streamer]
                   ELSE <<>>
        IN  /\ DOMAIN used = DOMAIN general \cup DOMAIN own
            /\ \A k \in DOMAIN own : used[k] = own[k]
            /\ \A k \in DOMAIN general \ DOMAIN own : used[k] = general[k]
            /\ ~known => used = general

\* a candidate of streamer s1 is scored with a table in which "gg", a key of
\* both tables, has the streamer's weight and "G" the general one
C21Witness ==
    /\ scored # None
    /\ detector = EvenConfig
    /\ streamer_name[scored.run] = "s1"
    /\ scored.combined_keywords[<<"g", "g">>] = 3
    /\ scored.combined_keywords[<<"G">>] = 2

\* the peak indices of the highlights collected by run r, in their order
AcceptedPeaks(r) ==
    LET acc == SelectSeq(handled[r], LAMBDA e : e[2] = "accepted")
    IN  [i \in 1 .. Len(acc) |-> acc[i][1]]

\* C22: every highlight has start >= 0, end <= the source duration and
\* end - start <= the clip duration; its start is c - clip/2 and its end
\* c + clip/2 for its peak index c, unless that falls before 0 or after the
\* source duration, where it is 0 or the source duration (times doubled)
C22Thm ==
    detector # None =>
        \A r \in Runs :
            LET clip_len == detector.clip_duration_seconds
                duration == video_duration_sec[r]
                hs == candidate_highlights[r]
            IN  /\ Len(hs) = Len(AcceptedPeaks(r))
                /\ \A i \in 1 .. Len(hs) :
                      LET c == AcceptedPeaks(r)[i]
                      IN  /\ hs[i].start >= 0
                          /\ hs[i].end <= 2 * duration
                          /\ hs[i].end - hs[i].start <= 2 * clip_len
                          /\ hs[i].start = IF 2 * c - clip_len < 0 THEN 0
                                           ELSE 2 * c - clip_len
                          /\ hs[i].end = IF 2 * c + clip_len > 2 * duration
                                         THEN 2 * duration
                                         ELSE 2 * c + clip_len
                /\ Range(result[r]) \subseteq Range(hs)

\* a returned highlight that is cut at the end of the source and not at its
\* start
C22Witness ==
    /\ detector # None
    /\ rpc[1] = "returned"
    /\ \E i \in 1 .. Len(result[1]) :
          /\ result[1][i].end = 2 * video_duration_sec[1]
          /\ result[1][i].start > 0
          /\ result[1][i].end - result[1][i].start
                < 2 * detector.clip_duration_seconds

\* g is ranked before h: a higher score, or the same score and an earlier
\* start
RankedBefore(g, h) ==
    \/ g.score > h.score
    \/ g.score = h.score /\ g.start < h.start

\* C23: the returned list is in descending order of score, equal scores in
\* the order of their start times; it holds at most max_clips_per_vod
\* entries, and these are the highest-ranked of the collected highlights
C23Thm ==
    detector # None =>
        \A r \in Runs :
            rpc[r] = "returned" =>
                LET res == result[r]
                    hs == candidate_highlights[r]
                IN  /\ Len(res) = MinOf({Len(hs), detector.max_clips_per_vod})
                    /\ Range(res) \subseteq Range(hs)
                    /\ \A i, j \in 1 .. Len(res) :
                          i < j => RankedBefore(res[i], res[j])
                    /\ \A g \in Range(res) : \A h \in Range(hs) \ Range(res) :
                          RankedBefore(g, h)

\* a run returned two highlights of the same score
C23Witness ==
    /\ detector # None
    /\ rpc[1] = "returned"
    /\ Len(result[1]) = 2
    /\ result[1][1].score = result[1][2].score
    /\ result[1][1].start < result[1][2].start

\* run 1 has been called; in CurveSpec rms_scores is then its energy curve
Called == detector # None /\ rpc[1] # "idle"

\* the candidates of run 1 as the peak selection left them: nothing has been
\* handled yet
Selected == [i \in 1 .. Len(candidate_peaks[1]) |-> candidate_peaks[1][i][1]]

\* rms_max - rms_min < 1e-6
Flat(x) == Len(x) > 0 /\ \A i, j \in 1 .. Len(x) : x[i] = x[j]

\* C24: a run returns the empty list, and does not raise, on audio that is
\* unreadable or shorter than a window, on a flat curve, on a curve no peak
\* of which reaches the threshold, and when it ends with no candidate
\* accepted
C24Claim ==
    Called =>
        LET x == rms_scores
            ended == \/ rpc[1] = "returned"
                     \/ rpc[1] = "raised" /\ Len(candidate_peaks[1]) = 1
        IN  /\ (\/ Len(x) = 0
                \/ Flat(x)
                \/ HighPeaks(x, detector.rms_peak_threshold) = <<>>)
                  => rpc[1] = "returned" /\ result[1] = <<>>
            /\ (ended /\ AcceptedPeaks(1) = <<>>)
                  => rpc[1] = "returned" /\ result[1] = <<>>

\* x[i] is above every other sample of x, and no other sample reaches the
\* threshold
IsolatedMaximum(x, i, height10) ==
    /\ Len(x) >= 2
    /\ \A j \in 0 .. Len(x) - 1 :
          j # i => /\ At(x, j) < At(x, i)
                   /\ (At(x, j) - MinOf(Range(x))) * 10
                         < height10 * (At(x, i) - MinOf(Range(x)))

\* C25: a curve with a single isolated maximum at index i gives exactly one
\* candidate, at i, for every index i of the curve, the first and the last
\* included
C25Claim ==
    (Called /\ handled[1] = <<>>) =>
        \A i \in 0 .. Len(rms_scores) - 1 :
            IsolatedMaximum(rms_scores, i, detector.rms_peak_threshold)
                => Selected = <<i>>

\* C26: of two peaks above the threshold that are closer than
\* clip_duration_seconds only one is a candidate: the higher one, and of two
\* of the same height the earlier one
C26Claim ==
    (Called /\ handled[1] = <<>>) =>
        LET x == rms_scores
            high == HighPeaks(x, detector.rms_peak_threshold)
        IN  (/\ Len(x) > 0
             /\ ~Flat(x)
             /\ Len(high) = 2
             /\ high[2] - high[1] < detector.clip_duration_seconds)
                => Selected = IF At(x, high[1]) >= At(x, high[2])
                              THEN <<high[1]>> ELSE <<high[2]>>

\* C27: a call with dry_run set sends nothing to an external service, neither
\* the clip to the remote storage nor a request to TikTok, whatever the
\* storage type
C27Claim ==
    (clip # None /\ clip.dry_run) => clip.external = <<>>

\* the number of tasks the loop has created for chunk c
LaunchCount(c) == Cardinality({i \in 1 .. Len(launched) : launched[i] = c})

\* C28: the polling loop creates at most one task per chunk file name; a name
\* that has a task is in processed_chunks and is in no later list of new
\* chunks, whether its file is still on disk or has been deleted, and
\* whether or not an iteration has raised
C28Thm ==
    /\ \A c \in Chunks : LaunchCount(c) <= 1
    /\ Range(launched) = processed_chunks
    /\ pc \in LoopPcs => Range(new_chunks) \cap processed_chunks = {}

\* after an iteration raised and the loop deleted the file of a launched
\* chunk, a poll lists new chunks next to launched chunks still on disk
C28Witness ==
    /\ pc = "iter"
    /\ new_chunks # <<>>
    /\ excs >= 1
    /\ \E c \in Range(launched) : Ts(c) \notin files /\ task[c] = "finished"
    /\ \E c \in Range(launched) : Ts(c) \in files /\ task[c] = "finished"

\* the chunks whose file the step removes
RemovedByStep == {c \in Chunks : Ts(c) \in files /\ Ts(c) \notin files'}

\* the last n elements of the buffer
MostRecent(buf, n) == {buf[i] : i \in {j \in 1 .. Len(buf) : j > Len(buf) - n}}

\* C29: a step of the polling loop removes a chunk file only when the chunk
\* is the oldest of a full buffer, so that Capacity - 1 newer chunks have been
\* buffered after it and none of those is removed; and no chunk discovered
\* after it has been removed before it
C29Step ==
    pc \in {"iter", "retry_loop"} =>
        \A c \in RemovedByStep :
            /\ Len(cleanup_buffer') = Capacity
            /\ c = cleanup_buffer'[1]
            /\ c \notin MostRecent(cleanup_buffer', Capacity - 1)
            /\ Cardinality({d \in Range(cleanup_buffer') : d > c})
                  = Capacity - 1
            /\ \A d \in processed_chunks' : d > c => Ts(d) \in files

C29Thm == [][C29Step]_vars

\* the loop has removed the two oldest chunks one after the other; the four
\* chunks buffered last are on disk
C29Witness ==
    /\ pc \in LoopPcs
    /\ Len(cleanup_buffer) = Capacity
    /\ Ts(cleanup_buffer[1]) \notin files
    /\ \E c \in Range(launched) :
          c \notin Range(cleanup_buffer) /\ Ts(c) \notin files
    /\ \A d \in MostRecent(cleanup_buffer, Capacity - 1) : Ts(d) \in files

\* C30: when download_stream has ended, in whatever way, its worker has been
\* told to stop and has run _final_cleanup to its end
C30Claim ==
    download_stream \in Ended => shutdown_event /\ pc = "done"

\* C31: a streamer has at most one download task that is not done, and that
\* task is the one active_download_tasks holds under the streamer's key; the
\* dict lists no streamer twice
C31Thm ==
    /\ Len(active_download_tasks) = Cardinality(Keys(active_download_tasks))
    /\ \A s \in MonitorStreamers :
          /\ running[s] <= 1
          /\ running[s] = 1 => /\ s \in Keys(active_download_tasks)
                               /\ dtask[s] = "running"

\* a streamer is in a later session of its own, launched after a cycle that
\* raised, while another streamer's download is still running
C31Witness ==
    /\ rm_fails >= 1
    /\ \E s, t \in MonitorStreamers :
          /\ s # t
          /\ running[s] = 1
          /\ running[t] = 1
          /\ session_dir[s] = ChunkDirName(s, MaxSessions)
          /\ session_dir[t] = ChunkDirName(t, 1)

\* a step that ends a monitoring cycle: the body has run, or the query has
\* failed its last attempt
CycleEnds == MonitoringCycle \/ (QueryFails /\ mpc' = "cycle")

\* the streamers whose download task is done and still in the dict
FinishedKeys ==
    {s \in Keys(active_download_tasks) : dtask[s] = "done"}

\* C32: the monitoring cycle that follows the end of a streamer's download
\* task removes the streamer from active_download_tasks
C32Claim ==
    [][CycleEnds => \A s \in FinishedKeys :
                        s \notin Keys(active_download_tasks')]_vars

\* C33: the cleanup of a cycle removes no session directory of a streamer
\* whose download task is still running
C33Claim ==
    [][MonitoringCycle =>
          \A t \in MonitorStreamers :
              dtask[t] = "running" => session_dir[t] \in session_dirs']_vars

\* a step in which an exception reaches the handler of the cycle: RetryError
\* after the last attempt of the query, or OSError from shutil.rmtree
CycleRaises ==
    \/ QueryFails /\ attempt_number + 1 = StatusStopAfterAttempt
    \/ MonitoringCycle /\ rm_fails' = rm_fails + 1

\* C34: the query gives up after its third attempt; an exception in a cycle
\* leaves the monitor at the sleep before its next cycle and every running
\* download task running
C34Inv == attempt_number < StatusStopAfterAttempt

C34Step ==
    CycleRaises =>
        /\ mpc' = "cycle"
        /\ cycle_result' = "raised"
        /\ \A s \in MonitorStreamers :
              /\ running'[s] >= running[s]
              /\ dtask[s] = "running" => dtask'[s] = "running"

C34Thm == []C34Inv /\ [][C34Step]_vars

\* the status query has just failed for good while two downloads are
\* running, and the monitor is about to start its next cycle
C34Witness ==
    /\ mpc = "cycle"
    /\ cycle_result = "raised"
    /\ rm_fails = 0
    /\ Cardinality({s \in MonitorStreamers : running[s] = 1}) >= 2
    /\ ENABLED MonitoringCycle

\* C35: upload_clip makes at most three attempts; every attempt but the last
\* one raised; an attempt that returned a value is the last one, and its
\* value is what upload_clip returns
C35Thm ==
    clip # None =>
        LET a == clip.attempts
        IN  /\ Len(a) <= StopAfterAttempt
            /\ Len(a) = clip.attempt_number
            /\ \A i \in 1 .. Len(a) - 1 : a[i] = "raises"
            /\ \A i \in 1 .. Len(a) :
                  a[i] # "raises" => /\ i = Len(a)
                                     /\ clip.uploaded = a[i]
                                     /\ clip.pc = "done"
            /\ clip.pc = "retry_wait" => /\ a # <<>>
                                         /\ a[Len(a)] = "raises"
                                         /\ Len(a) < StopAfterAttempt

\* two attempts raised and the third returned False, which upload_clip
\* returned
C35Witness ==
    /\ clip # None
    /\ clip.attempts = <<"raises", "raises", "false">>
    /\ clip.uploaded = "false"
    /\ clip.pc = "done"

\* the windows of g and h share at most one point (times doubled)
Apart(g, h) == g.end <= h.start \/ h.end <= g.start

\* C36: the peaks of the highlights of a run lie at least
\* clip_duration_seconds apart, and the windows of two highlights the run has
\* collected, and so of any two it returns, share at most an endpoint
C36Thm ==
    detector # None =>
        \A r \in Runs :
            LET peaks == AcceptedPeaks(r)
                hs == candidate_highlights[r]
            IN  /\ \A i, j \in 1 .. Len(peaks) :
                      i < j => peaks[j] - peaks[i]
                                  >= detector.clip_duration_seconds
                /\ \A i, j \in 1 .. Len(hs) : i # j => Apart(hs[i], hs[j])
                /\ \A i, j \in 1 .. Len(result[r]) :
                      i # j => Apart(result[r][i], result[r][j])

\* a run returned two highlights, the later one first
C36Witness ==
    /\ detector # None
    /\ rpc[1] = "returned"
    /\ Len(result[1]) = 2
    /\ result[1][2].end <= result[1][1].start
    /\ result[1][1].score > result[1][2].score

\* the candidates of run r whose window is empty or inverted: the declared
\* duration lies at or before the start of the window
InvertedPeaks(r) ==
    {handled[r][i][1] : i \in {j \in 1 .. Len(handled[r]) :
        EndTime(handled[r][j][1], detector.clip_duration_seconds,
                video_duration_sec[r])
          <= StartTime(handled[r][j][1], detector.clip_duration_seconds)}}

====
